---------------------------- MODULE Spec2Model ----------------------------
(***************************************************************************)
(* A model of src/main.py (CCXT Playground): the command entry point cli,  *)
(* the interactive loop main, and the CCXTEndpointTester session object    *)
(* with its setup, cleanup, capability report, endpoint invocation and     *)
(* save operations.  The wrapped exchange library is an external           *)
(* collaborator: what it returns or raises is a nondeterministic choice.   *)
(*                                                                         *)
(* Text the operator types is a sequence of one-character strings, so that *)
(* lower(), strip() and int() are computed character by character.         *)
(* A Python value is a tagged record: [t |-> "None"], [t |-> "str", s],    *)
(* [t |-> "int", n], [t |-> "bool", b].                                    *)
(***************************************************************************)
EXTENDS Integers, Sequences, FiniteSets, TLC

-----------------------------------------------------------------------------
(* Bounds of the model *)

\* most files under responses/ in one run
MaxFiles == 1
\* most clock ticks that pass while test_endpoint prompts for since
MaxTicks == 2
\* longest declared parameter list drawn for the invocation specification
MaxParams == 2
\* most keys of a capability map drawn for the classification specification
MaxHasKeys == 2
\* most methods of a client drawn for the selector specification: three pages
MaxMethods == 101

-----------------------------------------------------------------------------
(* Python values *)

PyNone == [t |-> "None"]
PyStr(s) == [t |-> "str", s |-> s]
PyInt(n) == [t |-> "int", n |-> n]
PyBool(b) == [t |-> "bool", b |-> b]

\* Python truthiness, as used by `if self._api_key:`, `if api_key:`, `api_key or ""`
Truthy(v) ==
    CASE v.t = "None" -> FALSE
      [] v.t = "str" -> v.s # <<>>
      [] v.t = "int" -> v.n # 0
      [] v.t = "bool" -> v.b
      [] v.t = "client" -> TRUE

-----------------------------------------------------------------------------
(* Text *)

LowerOf(c) ==
    CASE c = "K" -> "k"
      [] c = "O" -> "o"
      [] c = "X" -> "x"
      [] c = "N" -> "n"
      [] c = "W" -> "w"
      [] c = "E" -> "e"
      [] c = "T" -> "t"
      [] c = "R" -> "r"
      [] c = "U" -> "u"
      [] c = "F" -> "f"
      [] c = "A" -> "a"
      [] c = "L" -> "l"
      [] c = "S" -> "s"
      [] c = "Q" -> "q"
      [] c = "P" -> "p"
      [] OTHER -> c

\* str.lower()
Lower(s) == [i \in 1..Len(s) |-> LowerOf(s[i])]

IsSpace(c) == c = " "

RECURSIVE LStrip(_)
LStrip(s) == IF s # <<>> /\ IsSpace(Head(s)) THEN LStrip(Tail(s)) ELSE s

RECURSIVE RStrip(_)
RStrip(s) ==
    IF s # <<>> /\ IsSpace(s[Len(s)]) THEN RStrip(SubSeq(s, 1, Len(s) - 1)) ELSE s

\* str.strip()
Strip(s) == RStrip(LStrip(s))

\* rich's Prompt.ask(..., default=d) on the typed line: an empty line gives the
\* default, any other line is returned stripped
PromptAsk(line, d) == IF line = <<>> THEN d ELSE Strip(line)

Digits == <<"0", "1", "2", "3", "4", "5", "6", "7", "8", "9">>

IsDigit(c) == \E i \in DOMAIN Digits : Digits[i] = c

DigitValue(c) == (CHOOSE i \in DOMAIN Digits : Digits[i] = c) - 1

\* str.isdigit()
isdigit(s) == s # <<>> /\ \A i \in DOMAIN s : IsDigit(s[i])

\* the text int() reads digits from: surrounding blanks and one sign removed
IntBody(s) ==
    LET u == Strip(s)
    IN IF u # <<>> /\ Head(u) \in {"+", "-"} THEN Tail(u) ELSE u

\* whether int(s) returns: digits, with single underscores between digits
IsIntLiteral(s) ==
    LET b == IntBody(s)
    IN /\ b # <<>>
       /\ \A i \in DOMAIN b :
             \/ IsDigit(b[i])
             \/ /\ b[i] = "_"
                /\ 1 < i /\ i < Len(b)
                /\ IsDigit(b[i - 1]) /\ IsDigit(b[i + 1])

RECURSIVE DigitsValue(_)
DigitsValue(b) ==
    IF b = <<>> THEN 0
    ELSE LET last == b[Len(b)]
             rest == SubSeq(b, 1, Len(b) - 1)
         IN IF last = "_" THEN DigitsValue(rest)
            ELSE 10 * DigitsValue(rest) + DigitValue(last)

\* int(s), for a text with IsIntLiteral(s)
int(s) ==
    LET u == Strip(s)
    IN IF Head(u) = "-" THEN 0 - DigitsValue(IntBody(s)) ELSE DigitsValue(IntBody(s))

\* the characters of the model in code-point order
Alphabet ==
    <<" ", "+", "-", "/", "0", "1", "2", "3", "4", "5", "6", "7", "8", "9",
      "A", "B", "C", "D", "E", "F", "I", "K", "L", "N", "O", "P", "Q", "R", "S",
      "T", "U", "W", "X", "\\", "_",
      "a", "b", "c", "d", "e", "f", "h", "i", "k", "l", "m", "n", "o", "p", "q",
      "r", "s", "t", "u", "v", "w", "x">>

Rank(c) == CHOOSE i \in DOMAIN Alphabet : Alphabet[i] = c

RECURSIVE StrLess(_, _)
\* a < b on str
StrLess(a, b) ==
    IF b = <<>> THEN FALSE
    ELSE IF a = <<>> THEN TRUE
    ELSE IF Head(a) = Head(b) THEN StrLess(Tail(a), Tail(b))
    ELSE Rank(Head(a)) < Rank(Head(b))

\* sorted(list of str)
sorted(l) == SortSeq(l, StrLess)

-----------------------------------------------------------------------------
(* The exchange registry of the wrapped library *)

okx == <<"o", "k", "x">>
indodax == <<"i", "n", "d", "o", "d", "a", "x">>

\* ccxt.exchanges, as a set: select_exchange only tests membership in the sorted list
exchanges == {okx, indodax}

\* what the operator can type at the exchange prompt: nothing, a name of the
\* registry in several spellings, and texts that are no name of it
ExchangeLines ==
    {<<>>, okx, <<"O", "K", "X">>, <<" ", "o", "K", "x", " ">>, <<"o", "k", "x", " ">>,
     <<" ">>, <<"x">>, <<"o", "k">>, <<"o", " ", "k", "x">>}

\* the credentials the operator can type or pass
KEY1 == <<"K", "1">>
SEC1 == <<"S", "1">>


-----------------------------------------------------------------------------
(* State *)

VARIABLES
    pc,                \* where the program is: the prompt or call it is blocked on
    mode,              \* "none" before cli dispatches, then "interactive" or "noninteractive"
    opts,              \* the options given to cli
    exchange_name,     \* main / cli: the exchange chosen for the next setup
    api_key,           \* main / cli: the API key passed to setup_exchange
    secret_key,        \* main / cli: the secret passed to setup_exchange
    changing,          \* main: TRUE inside the "change exchange" action
    tester,            \* the CCXTEndpointTester object
    typed,             \* the last line read at the exchange prompt
    console,           \* the messages printed by the last step
    raised,            \* the kind of the last exception raised
    all_methods,       \* select_endpoint: the sorted method list
    current_page,      \* select_endpoint: the page shown
    endpoint,          \* test_endpoint: the method name
    params,            \* test_endpoint: the declared parameter names
    args,              \* test_endpoint: the positional values collected
    kwargs,            \* test_endpoint: the keyword values collected, name -> value
    answers,           \* test_endpoint: parameter -> the value prompted for it
    result,            \* test_endpoint: what the call returned
    has_dict,          \* check_supported_endpoints: the capability map read
    supported,         \* check_supported_endpoints: category -> names
    emulated,          \* check_supported_endpoints: category -> names
    not_supported,     \* check_supported_endpoints: category -> names
    files,             \* the files under responses/: path -> content
    ticks              \* wall-clock time, in ticks since the program started

vars == <<pc, mode, opts, exchange_name, api_key, secret_key, changing, tester,
          typed, console, raised, all_methods, current_page, endpoint, params,
          args, kwargs, answers, result, has_dict, supported, emulated, not_supported,
          files, ticks>>

uiVars == <<typed, console, raised>>
selectorVars == <<all_methods, current_page>>
invokeVars == <<endpoint, params, args, kwargs, answers, result>>
capVars == <<has_dict, supported, emulated, not_supported>>
fileVars == <<files>>
mainVars == <<exchange_name, api_key, secret_key, changing>>

-----------------------------------------------------------------------------
(* Time *)

\* time.time() * 1000 counts milliseconds
MsPerSecond == 1000
\* clock ticks in one millisecond: the wall clock is finer than a millisecond
TicksPerMs == 2
\* the millisecond in which the program starts: the last one of a second
StartMs == 1999

\* the wall clock, in ticks since the epoch
Clock == StartMs * TicksPerMs + ticks

\* int(time.time() * 1000): the wall clock cut to the millisecond
NowMs == Clock \div TicksPerMs

\* datetime.now().strftime("%Y%m%d_%H%M%S"): the wall clock cut to the second
Timestamp == NowMs \div MsPerSecond

\* datetime.now().isoformat() as the files record it, kept here to the second
IsoTimestamp == NowMs \div MsPerSecond

-----------------------------------------------------------------------------
(* The session object *)

\* CCXTEndpointTester.__init__
__init__ ==
    [exchange |-> PyNone, exchange_instance |-> PyNone,
     _api_key |-> PyNone, _secret |-> PyNone]

\* a credential field after `if self.f: self.f = None`
ClearIfSet(v) == IF Truthy(v) THEN PyNone ELSE v

\* a faulty _clear_credentials that forgets the secret
_clear_credentials_keeps_secret(t) == [t EXCEPT !._api_key = ClearIfSet(@)]

\* CCXTEndpointTester._clear_credentials
_clear_credentials(t) ==
    [t EXCEPT !._api_key = ClearIfSet(@), !._secret = ClearIfSet(@)]

\* a faulty cleanup that keeps the handle to the client
cleanup_keeps_client(t) == [t EXCEPT !._api_key = ClearIfSet(@), !._secret = ClearIfSet(@)]

\* a faulty cleanup that keeps the exchange id
cleanup_keeps_exchange(t) ==
    [t EXCEPT !._api_key = ClearIfSet(@), !._secret = ClearIfSet(@),
              !.exchange_instance = PyNone]

\* CCXTEndpointTester.cleanup: the client's own apiKey and secret are set to None
\* and then the handle to the client is dropped together with the exchange id
cleanup(t) ==
    LET c == _clear_credentials(t)
    IN [c EXCEPT !.exchange_instance = PyNone, !.exchange = PyNone]

\* the client the library constructs from config: apiKey and secret are in config
\* only when non-empty, and the library's own default for both is the empty string
NewClient(name, k, s, has, loaded) ==
    [t |-> "client", id |-> name,
     apiKey |-> IF Truthy(k) THEN k ELSE PyStr(<<>>),
     secret |-> IF Truthy(s) THEN s ELSE PyStr(<<>>),
     markets |-> loaded, has |-> has]

\* setup_exchange up to the point where the library is asked for the class
SetupStored(t, k, s) == [t EXCEPT !._api_key = k, !._secret = s]

\* setup_exchange after the client was constructed
SetupDone(t, name, k, s, has, loaded) ==
    [SetupStored(t, k, s) EXCEPT !.exchange_instance = NewClient(name, k, s, has, loaded),
                                 !.exchange = PyStr(name)]

\* a main without its finally clause
finally_main_skipped(t) == t

\* the `finally: tester.cleanup()` of main
finally_main(t) == cleanup(t)

\* the `finally: tester.cleanup()` of cli
finally_cli(t) == cleanup(t)

\* whether the session holds no credential, client or exchange id
Cleared(t) ==
    /\ ~Truthy(t._api_key)
    /\ ~Truthy(t._secret)
    /\ t.exchange_instance = PyNone
    /\ t.exchange = PyNone

-----------------------------------------------------------------------------
(* The capability report: check_supported_endpoints *)

\* the keys of `categories`, in the order of the dict literal
CategoryNames == <<"Market Data", "Trading", "Account", "Advanced", "WebSocket">>

\* the `categories` dict: category -> the endpoint names checked
categories ==
       "Market Data" :>
        <<"fetchMarkets", "fetchCurrencies", "fetchTicker", "fetchTickers",
          "fetchOrderBook", "fetchOHLCV", "fetchTrades", "fetchStatus">>
    @@ "Trading" :>
        <<"createOrder", "cancelOrder", "cancelAllOrders", "editOrder",
          "fetchOrder", "fetchOrders", "fetchOpenOrders", "fetchClosedOrders">>
    @@ "Account" :>
        <<"fetchBalance", "fetchMyTrades", "fetchLedger", "fetchTransactions",
          "fetchDeposits", "fetchWithdrawals", "fetchDepositAddress">>
    @@ "Advanced" :>
        <<"fetchPositions", "fetchFundingRate", "fetchFundingHistory",
          "fetchBorrowRate", "fetchTradingFee", "fetchTradingFees">>
    @@ "WebSocket" :>
        <<"ws", "watchTicker", "watchTickers", "watchOrderBook", "watchTrades",
          "watchOHLCV", "watchBalance", "watchOrders">>

\* the token the library uses for an emulated capability, and a near miss
emulated_token == <<"e", "m", "u", "l", "a", "t", "e", "d">>
Emulated_token == <<"E", "m", "u", "l", "a", "t", "e", "d">>

\* the values a capability map can hold
HasValues ==
    {PyBool(TRUE), PyBool(FALSE), PyNone, PyInt(1),
     PyStr(emulated_token), PyStr(Emulated_token)}

\* a faulty classification that tests the value for truth instead of `is True`
Classify_truthy(has, e) ==
    IF e \in DOMAIN has
    THEN IF Truthy(has[e]) THEN "supported"
         ELSE IF has[e] = PyStr(emulated_token) THEN "emulated"
         ELSE "not_supported"
    ELSE "not_supported"

\* the bucket of one endpoint name: `value is True`, `value == "emulated"`, else
Classify(has, e) ==
    IF e \in DOMAIN has
    THEN IF has[e] = PyBool(TRUE) THEN "supported"
         ELSE IF has[e] = PyStr(emulated_token) THEN "emulated"
         ELSE "not_supported"
    ELSE "not_supported"

\* one of the three dicts built by the classification loop: for every category
\* the names of that bucket, in the order of the category's list
Bucket(has, b) ==
    [c \in DOMAIN categories |->
        LET InBucket(e) == Classify(has, e) = b
        IN SelectSeq(categories[c], InBucket)]

RECURSIVE SumLens(_, _)
\* sum(len(endpoints) for endpoints in d.values())
SumLens(d, cs) ==
    IF cs = {} THEN 0
    ELSE LET c == CHOOSE x \in cs : TRUE
         IN Len(d[c]) + SumLens(d, cs \ {c})

\* faulty totals whose total_checked leaves out the emulated endpoints
Summary_without_emulated(sup, emu, nsup) ==
    [total_checked |-> SumLens(sup, DOMAIN sup) + SumLens(nsup, DOMAIN nsup),
     supported |-> SumLens(sup, DOMAIN sup),
     emulated |-> SumLens(emu, DOMAIN emu),
     not_supported |-> SumLens(nsup, DOMAIN nsup)]

\* the totals computed by _save_capability_info_to_file
Summary(sup, emu, nsup) ==
    LET total_supported == SumLens(sup, DOMAIN sup)
        total_emulated == SumLens(emu, DOMAIN emu)
        total_not_supported == SumLens(nsup, DOMAIN nsup)
    IN [total_checked |-> total_supported + total_emulated + total_not_supported,
        supported |-> total_supported,
        emulated |-> total_emulated,
        not_supported |-> total_not_supported]

\* data_to_save of _save_capability_info_to_file
CapabilityData(t, has, sup, emu, nsup) ==
    [kind |-> "capabilities",
     timestamp |-> IsoTimestamp,
     exchange |-> t.exchange,
     summary |-> Summary(sup, emu, nsup),
     raw_has_dictionary |-> has,
     categorized_endpoints |-> [supported |-> sup, emulated |-> emu, not_supported |-> nsup]]

\* a dict that was not built yet
NoDict == <<>>

-----------------------------------------------------------------------------
(* The wrapped library, as far as the program observes it *)

fetch_balance == <<"f", "e", "t", "c", "h", "_", "b", "a", "l", "a", "n", "c", "e">>
fetch_order_book ==
    <<"f", "e", "t", "c", "h", "_", "o", "r", "d", "e", "r", "_", "b", "o", "o", "k">>
fetch_ticker == <<"f", "e", "t", "c", "h", "_", "t", "i", "c", "k", "e", "r">>
fetch_tickers == <<"f", "e", "t", "c", "h", "_", "t", "i", "c", "k", "e", "r", "s">>
fetch_ohlcv == <<"f", "e", "t", "c", "h", "_", "o", "h", "l", "c", "v">>
number == <<"n", "u", "m", "b", "e", "r">>
timeout == <<"t", "i", "m", "e", "o", "u", "t">>

\* dir(exchange_instance) filtered to the public callables, in dir()'s order
LibMethods == <<fetch_balance, fetch_ticker, number>>

\* public attributes of the client that are no callables
LibAttributes == {timeout}

\* the capability map (`has`) the library's class of an exchange declares
LibHas(name) ==
    IF name = okx
    THEN "fetchTicker" :> PyBool(TRUE) @@ "fetchOrderBook" :> PyStr(emulated_token)
           @@ "fetchBalance" :> PyBool(FALSE) @@ "fetchTime" :> PyBool(TRUE)
    ELSE <<>>

\* a client object
IsClient(v) == v.t = "client"

-----------------------------------------------------------------------------
(* Initial state *)

\* the option values cli can be started with
OptionSets ==
    [exchange : {PyNone, PyStr(okx), PyStr(<<"x">>)},
     endpoint : {PyNone, PyStr(fetch_ticker), PyStr(timeout), PyStr(<<"x">>)},
     api_key : {PyNone, PyStr(KEY1)},
     secret : {PyNone, PyStr(SEC1)}]

NoOptions == [exchange |-> PyNone, endpoint |-> PyNone, api_key |-> PyNone, secret |-> PyNone]

\* the locals of the program before they are assigned
InitLocals ==
    /\ exchange_name = <<>>
    /\ api_key = PyNone
    /\ secret_key = PyNone
    /\ changing = FALSE
    /\ typed = <<>>
    /\ console = {}
    /\ raised = "none"
    /\ all_methods = <<>>
    /\ current_page = 0
    /\ endpoint = <<>>
    /\ params = <<>>
    /\ args = <<>>
    /\ kwargs = <<>>
    /\ answers = <<>>
    /\ result = PyNone
    /\ has_dict = NoDict
    /\ supported = NoDict
    /\ emulated = NoDict
    /\ not_supported = NoDict

\* the program starts in cli with some options, or in main (`__main__`)
Init ==
    /\ \/ pc = "cli" /\ opts \in OptionSets
       \/ pc = "main" /\ opts = NoOptions
    /\ mode = "none"
    /\ tester = __init__
    /\ InitLocals
    /\ files = <<>>
    /\ ticks = 0

-----------------------------------------------------------------------------
(* How an exception leaves the program *)

\* an exception that no handler of the tester catches: main's `except Exception`
\* reports it and asks about the traceback; cli's reports it and cleans up
Propagate(t, kind, msgs) ==
    /\ raised' = kind
    /\ IF mode = "interactive"
       THEN /\ console' = msgs \cup {"Unexpected error"}
            /\ tester' = t
            /\ pc' = "main_traceback"
       ELSE /\ console' = msgs \cup {"Error"}
            /\ tester' = finally_cli(t)
            /\ pc' = "exited"

\* an operator interrupt that no handler of the tester catches
Interrupted(t) ==
    /\ raised' = "KeyboardInterrupt"
    /\ IF mode = "interactive"
       THEN /\ console' = {"Operation cancelled by user"}
            /\ tester' = finally_main(t)
       ELSE /\ console' = {}
            /\ tester' = finally_cli(t)
    /\ pc' = "exited"

-----------------------------------------------------------------------------
(* cli *)

\* `api_key or ""`
OrEmpty(v) == IF Truthy(v) THEN v ELSE PyStr(<<>>)

\* cli after the security question: one invocation, or the interactive loop;
\* main takes no argument, so the options are out of its reach
Dispatch ==
    IF Truthy(opts.exchange) /\ Truthy(opts.endpoint)
    THEN /\ mode' = "noninteractive"
         /\ pc' = "setup"
         /\ exchange_name' = opts.exchange.s
         /\ api_key' = OrEmpty(opts.api_key)
         /\ secret_key' = OrEmpty(opts.secret)
         /\ console' = {}
         /\ UNCHANGED opts
    ELSE /\ mode' = "interactive"
         /\ pc' = "select"
         /\ console' = {"CCXT Playground", "Security Notice", "Step 1"}
         /\ opts' = NoOptions
         /\ UNCHANGED <<exchange_name, api_key, secret_key>>

\* cli starts: credentials on the command line bring the security question
CliStart ==
    /\ pc = "cli"
    /\ IF Truthy(opts.api_key) \/ Truthy(opts.secret)
       THEN /\ pc' = "cli_confirm"
            /\ console' = {"Command Line Security Warning"}
            /\ UNCHANGED <<mode, opts, exchange_name, api_key, secret_key>>
       ELSE Dispatch
    /\ UNCHANGED <<changing, tester, typed, raised, selectorVars, invokeVars,
                   capVars, fileVars, ticks>>

\* the answer to "Continue with command line credentials?"
CliConfirm ==
    /\ pc = "cli_confirm"
    /\ \E answer \in BOOLEAN :
          IF answer
          THEN Dispatch
          ELSE /\ pc' = "exited"
               /\ console' = {"Exiting for security"}
               /\ UNCHANGED <<mode, opts, exchange_name, api_key, secret_key>>
    /\ UNCHANGED <<changing, tester, typed, raised, selectorVars, invokeVars,
                   capVars, fileVars, ticks>>

\* the program run as a script calls main directly
MainStart ==
    /\ pc = "main"
    /\ mode' = "interactive"
    /\ pc' = "select"
    /\ console' = {"CCXT Playground", "Security Notice", "Step 1"}
    /\ UNCHANGED <<opts, mainVars, tester, typed, raised, selectorVars, invokeVars,
                   capVars, fileVars, ticks>>

-----------------------------------------------------------------------------
(* select_exchange and the credential prompts *)

\* Prompt.ask("Enter exchange name", default="indodax").lower().strip()
\* a faulty normalisation that compares the name as typed, without lower-casing
ExchangeNameOf_case_sensitive(line) == Strip(PromptAsk(line, indodax))

ExchangeNameOf(line) == Strip(Lower(PromptAsk(line, indodax)))

\* one round of select_exchange's loop: a name of the registry is returned,
\* anything else is reported and asked again
SelectExchange ==
    /\ pc = "select"
    /\ \E line \in ExchangeLines :
          /\ typed' = line
          /\ IF ExchangeNameOf(line) \in exchanges
             THEN /\ exchange_name' = ExchangeNameOf(line)
                  /\ pc' = "key"
                  /\ console' = IF changing THEN {} ELSE {"Step 2"}
             ELSE /\ console' = {"Exchange not found"}
                  /\ UNCHANGED <<pc, exchange_name>>
    /\ UNCHANGED <<mode, opts, api_key, secret_key, changing, tester, raised,
                   selectorVars, invokeVars, capVars, fileVars, ticks>>

\* what the operator can type at a credential prompt
KeyLines == {<<>>, KEY1}
SecretLines == {<<>>, SEC1}

\* Prompt.ask("Enter API Key (optional)", default="")
EnterApiKey ==
    /\ pc = "key"
    /\ \E line \in KeyLines : api_key' = PyStr(PromptAsk(line, <<>>))
    /\ pc' = "secret"
    /\ typed' = <<>>
    /\ console' = {}
    /\ UNCHANGED <<mode, opts, exchange_name, secret_key, changing, tester, raised,
                   selectorVars, invokeVars, capVars, fileVars, ticks>>

\* Prompt.ask("Enter Secret Key (optional)", default="")
EnterSecret ==
    /\ pc = "secret"
    /\ \E line \in SecretLines : secret_key' = PyStr(PromptAsk(line, <<>>))
    /\ pc' = "setup"
    /\ console' = IF changing THEN {} ELSE {"Step 3"}
    /\ UNCHANGED <<mode, opts, exchange_name, api_key, changing, tester, typed, raised,
                   selectorVars, invokeVars, capVars, fileVars, ticks>>

-----------------------------------------------------------------------------
(* setup_exchange *)

\* setup_exchange returns: the client was constructed; load_markets succeeded,
\* or raised and only brought a warning.  main's loop reads exchange_name,
\* api_key and secret_key no more before it assigns them anew, so they are
\* dropped there
SetupSucceeds ==
    /\ pc = "setup"
    /\ exchange_name \in exchanges
    /\ \E loaded \in BOOLEAN :
          /\ tester' = SetupDone(tester, exchange_name, api_key, secret_key,
                                 LibHas(exchange_name), loaded)
          /\ console' = IF loaded THEN {"Successfully connected"}
                        ELSE {"Warning: Could not load markets"}
    /\ IF mode = "interactive"
       THEN /\ pc' = "menu"
            /\ exchange_name' = <<>>
            /\ api_key' = PyNone
            /\ secret_key' = PyNone
            /\ UNCHANGED endpoint
       ELSE /\ pc' = "test_endpoint"
            /\ endpoint' = opts.endpoint.s
            /\ UNCHANGED <<exchange_name, api_key, secret_key>>
    /\ changing' = FALSE
    /\ UNCHANGED <<mode, opts, typed, raised, selectorVars, params, args, kwargs,
                   answers, result, capVars, fileVars, ticks>>

\* setup_exchange raises: the library has no such exchange class, or the
\* constructor raised; the error is printed and raised again
SetupRaises ==
    /\ pc = "setup"
    /\ Propagate(SetupStored(tester, api_key, secret_key), "setup",
                 {"Error setting up exchange"})
    /\ UNCHANGED <<mode, opts, mainVars, typed, selectorVars, invokeVars, capVars,
                   fileVars, ticks>>

\* an operator interrupt while the library loads the markets
SetupInterrupted ==
    /\ pc = "setup"
    /\ exchange_name \in exchanges
    /\ Interrupted(SetupStored(tester, api_key, secret_key))
    /\ UNCHANGED <<mode, opts, mainVars, typed, selectorVars, invokeVars, capVars,
                   fileVars, ticks>>

-----------------------------------------------------------------------------
(* get_available_endpoints and the files under responses/ *)

\* str.startswith
StartsWith(s, p) == Len(p) <= Len(s) /\ SubSeq(s, 1, Len(p)) = p

\* `sub in s`
Contains(s, sub) ==
    \E i \in 0..(Len(s) - Len(sub)) : SubSeq(s, i + 1, i + Len(sub)) = sub

fetch_ == <<"f", "e", "t", "c", "h", "_">>
order == <<"o", "r", "d", "e", "r">>
balance == <<"b", "a", "l", "a", "n", "c", "e">>

\* the category get_available_endpoints puts a method name in
EndpointCategory(m) ==
    IF m \in {fetch_ticker, fetch_tickers, fetch_order_book, fetch_ohlcv}
    THEN "Market Data"
    ELSE IF StartsWith(m, fetch_) /\ Contains(m, order) THEN "Trading"
    ELSE IF StartsWith(m, fetch_) /\ Contains(m, balance) THEN "Account"
    ELSE IF StartsWith(m, fetch_) THEN "Public"
    ELSE "Other"

\* the keys of the `endpoints` dict, in the order of the dict literal
EndpointCategories == <<"Public", "Market Data", "Trading", "Account", "Other">>

\* get_available_endpoints: {} without a client, else category -> method names
get_available_endpoints(t) ==
    IF ~Truthy(t.exchange_instance) THEN <<>>
    ELSE [c \in {EndpointCategories[i] : i \in DOMAIN EndpointCategories} |->
             LET InCategory(m) == EndpointCategory(m) = c
             IN SelectSeq(LibMethods, InCategory)]

\* data_to_save of _save_endpoints_info_to_file
EndpointsData(t, endpoints) ==
    [kind |-> "endpoints",
     timestamp |-> IsoTimestamp,
     exchange |-> t.exchange,
     total_endpoints |-> SumLens(endpoints, DOMAIN endpoints),
     endpoints |-> endpoints]

\* str(self.exchange) inside a file name
ExchangeText(t) == IF t.exchange = PyNone THEN <<"N", "o", "n", "e">> ELSE t.exchange.s

\* the path of a capability report and of an endpoint listing
CapabilityPath(t) == <<"ccxt_capabilities", ExchangeText(t), <<>>, Timestamp>>
EndpointsPath(t) == <<"ccxt_endpoints", ExchangeText(t), <<>>, Timestamp>>

\* endpoint.replace("/", "_").replace("\\", "_")
safe_endpoint(e) == [i \in 1..Len(e) |-> IF e[i] \in {"/", "\\"} THEN "_" ELSE e[i]]

\* the path of a saved response
ResponsePath(t, e) == <<"ccxt_response", ExchangeText(t), safe_endpoint(e), Timestamp>>

\* a faulty request_info that records the credentials the client was built with
RequestInfo_with_credentials(t, e, a, kw) ==
    [Exchange |-> t.exchange, Endpoint |-> e, Arguments |-> a,
     KeywordArguments |-> kw @@ [n \in {"apiKey", "secret"} |->
                                    IF n = "apiKey" THEN t._api_key ELSE t._secret]]

\* request_info of test_endpoint
RequestInfo(t, e, a, kw) ==
    [Exchange |-> t.exchange, Endpoint |-> e, Arguments |-> a, KeywordArguments |-> kw]

\* data_to_save of _save_response_to_file
ResponseData(t, e, request_info, response_data) ==
    [kind |-> "response",
     timestamp |-> IsoTimestamp,
     exchange |-> t.exchange,
     endpoint |-> e,
     request_info |-> request_info,
     response |-> response_data]

\* open(filepath, "w") and json.dump: the file is created or replaced
WriteFile(fs, path, data) ==
    [q \in DOMAIN fs \cup {path} |-> IF q = path THEN data ELSE fs[q]]

\* whether the directory still has room for the file at path: a file that
\* exists already can always be replaced
FitsIn(fs, path) == Cardinality(DOMAIN fs \cup {path}) <= MaxFiles

\* one of the three save operations: the file is written, or the write raises
\* and the error is only reported
Save(path, data, saved, failed) ==
    \/ /\ files' = WriteFile(files, path, data)
       /\ console' = {saved}
    \/ /\ console' = {failed}
       /\ UNCHANGED files

-----------------------------------------------------------------------------
(* The action menu of main *)

\* the menu is left for good: locals of the finished action are dropped
ResetCap == has_dict' = NoDict /\ supported' = NoDict /\ emulated' = NoDict
            /\ not_supported' = NoDict

ResetInvoke == endpoint' = <<>> /\ params' = <<>> /\ args' = <<>> /\ kwargs' = <<>>
               /\ answers' = <<>> /\ result' = PyNone

\* choice "1": display_endpoints shows the tables and asks whether to save them
MenuDisplayEndpoints ==
    /\ pc = "menu"
    /\ pc' = "save_endpoints_confirm"
    /\ console' = {"Endpoints tables", "Save endpoints information to JSON file?"}
    /\ raised' = "none"
    /\ UNCHANGED <<mode, opts, mainVars, tester, typed, selectorVars, invokeVars,
                   capVars, fileVars, ticks>>

\* the answer to "Save all endpoints data for reference?"
SaveEndpointsConfirm ==
    /\ pc = "save_endpoints_confirm"
    /\ \E answer \in BOOLEAN :
          IF answer
          THEN /\ FitsIn(files, EndpointsPath(tester))
               /\ Save(EndpointsPath(tester),
                       EndpointsData(tester, get_available_endpoints(tester)),
                       "Endpoints info saved", "Error saving endpoints info")
          ELSE /\ console' = {}
               /\ UNCHANGED fileVars
    /\ pc' = "menu"
    /\ UNCHANGED <<mode, opts, mainVars, tester, typed, raised, selectorVars,
                   invokeVars, capVars, ticks>>

\* getattr(self.exchange_instance, "has", {})
HasOf(t) == t.exchange_instance.has

\* choice "2": check_supported_endpoints.  An empty capability map is reported
\* and nothing is classified; else the three dicts are built, the tables and
\* the summary are shown, and the operator is asked whether to save them
MenuCheckSupported ==
    /\ pc = "menu"
    /\ IF HasOf(tester) = <<>>
       THEN /\ console' = {"Exchange doesn't provide capability information"}
            /\ UNCHANGED <<pc, capVars>>
       ELSE /\ has_dict' = HasOf(tester)
            /\ supported' = Bucket(HasOf(tester), "supported")
            /\ emulated' = Bucket(HasOf(tester), "emulated")
            /\ not_supported' = Bucket(HasOf(tester), "not_supported")
            /\ console' = {"Support tables", "Support Summary",
                           "Save endpoint support information to JSON file?"}
            /\ pc' = "save_capabilities_confirm"
    /\ raised' = "none"
    /\ UNCHANGED <<mode, opts, mainVars, tester, typed, selectorVars, invokeVars,
                   fileVars, ticks>>

\* the answer to "Save endpoint capabilities data for reference?"
SaveCapabilitiesConfirm ==
    /\ pc = "save_capabilities_confirm"
    /\ \E answer \in BOOLEAN :
          IF answer
          THEN /\ FitsIn(files, CapabilityPath(tester))
               /\ Save(CapabilityPath(tester),
                       CapabilityData(tester, has_dict, supported, emulated, not_supported),
                       "Capability info saved", "Error saving capability info")
          ELSE /\ console' = {}
               /\ UNCHANGED fileVars
    /\ pc' = "menu"
    /\ ResetCap
    /\ UNCHANGED <<mode, opts, mainVars, tester, typed, raised, selectorVars,
                   invokeVars, ticks>>

\* choice "4": the session is cleaned up, then a new exchange is asked for
MenuChangeExchange ==
    /\ pc = "menu"
    /\ tester' = cleanup(tester)
    /\ changing' = TRUE
    /\ pc' = "select"
    /\ console' = {}
    /\ raised' = "none"
    /\ UNCHANGED <<mode, opts, exchange_name, api_key, secret_key, typed, selectorVars,
                   invokeVars, capVars, fileVars, ticks>>

\* choice "5": the loop is left and main's finally runs
MenuExit ==
    /\ pc = "menu"
    /\ tester' = finally_main(tester)
    /\ pc' = "exited"
    /\ console' = {"Goodbye!"}
    /\ raised' = "none"
    /\ UNCHANGED <<mode, opts, mainVars, typed, selectorVars, invokeVars, capVars,
                   fileVars, ticks>>

\* the answer to main's "Show full traceback?", then main's finally
MainTraceback ==
    /\ pc = "main_traceback"
    /\ \E answer \in BOOLEAN : console' = IF answer THEN {"traceback"} ELSE {}
    /\ tester' = finally_main(tester)
    /\ pc' = "exited"
    /\ UNCHANGED <<mode, opts, mainVars, typed, raised, selectorVars, invokeVars,
                   capVars, fileVars, ticks>>

\* the prompts of main and of the save questions, where an operator interrupt
\* reaches main's `except KeyboardInterrupt` or passes through cli's finally
InterruptiblePrompts ==
    {"select", "key", "secret", "menu", "main_traceback", "save_endpoints_confirm",
     "save_capabilities_confirm", "call", "call_traceback", "save_response_confirm"}

\* an operator interrupt at one of those prompts
PromptInterrupted ==
    /\ pc \in InterruptiblePrompts
    /\ Interrupted(tester)
    /\ UNCHANGED <<mode, opts, mainVars, typed, selectorVars, invokeVars, capVars,
                   fileVars, ticks>>

\* an operator interrupt at cli's security question: no session exists yet
CliInterrupted ==
    /\ pc = "cli_confirm"
    /\ pc' = "exited"
    /\ raised' = "KeyboardInterrupt"
    /\ console' = {}
    /\ UNCHANGED <<mode, opts, mainVars, tester, typed, selectorVars, invokeVars,
                   capVars, fileVars, ticks>>

\* the wall clock advances while test_endpoint is about to prompt for since,
\* the one place where the program reads the clock finer than to the second.
\* A run of the menu is taken to fall within one second, the case in which
\* the names of its files share their timestamp
Tick ==
    /\ pc = "prompt"
    /\ params[Len(answers) + 1] = "since"
    /\ ticks < MaxTicks
    /\ ticks' = ticks + 1
    /\ UNCHANGED <<pc, mode, opts, mainVars, tester, uiVars, selectorVars, invokeVars,
                   capVars, fileVars>>

-----
(* select_endpoint *)

page_size == 50

\* the status icons of the selector: a check mark, a lightning bolt, a cross
\* and a question mark, each in its colour markup
icon_supported == "[green]check[/green]"
icon_emulated == "[yellow]bolt[/yellow]"
icon_not_supported == "[red]cross[/red]"
icon_unknown == "[dim]?[/dim]"

\* a faulty status that shows a name absent from the map as not supported
_get_endpoint_support_status_without_unknown(t, e) ==
    IF ~IsClient(t.exchange_instance) THEN ""
    ELSE IF e \in DOMAIN HasOf(t)
    THEN IF HasOf(t)[e] = PyBool(TRUE) THEN icon_supported
         ELSE IF HasOf(t)[e] = PyStr(emulated_token) THEN icon_emulated
         ELSE icon_not_supported
    ELSE icon_not_supported

\* _get_endpoint_support_status: the icon shown next to a method name
_get_endpoint_support_status(t, e) ==
    IF ~IsClient(t.exchange_instance) THEN ""
    ELSE IF e \in DOMAIN HasOf(t)
    THEN IF HasOf(t)[e] = PyBool(TRUE) THEN icon_supported
         ELSE IF HasOf(t)[e] = PyStr(emulated_token) THEN icon_emulated
         ELSE icon_not_supported
    ELSE icon_unknown

\* what one round of the selector shows: the table title and the status icons
\* of the methods of the page
PageShown(t, l, page) ==
    {"Available Endpoints with Support Status"}
        \cup {_get_endpoint_support_status(t, l[i]) :
                 i \in {j \in DOMAIN l : page * page_size < j /\ j <= page * page_size + page_size}}

RECURSIVE Flatten(_, _)
\* all_methods.extend(methods) for every category with methods, in dict order
Flatten(endpoints, cats) ==
    IF cats = <<>> \/ endpoints = <<>> THEN <<>>
    ELSE endpoints[Head(cats)] \o Flatten(endpoints, Tail(cats))

\* choice "3": select_endpoint builds the sorted method list and shows page one
MenuTestEndpoint ==
    /\ pc = "menu"
    /\ all_methods' = sorted(Flatten(get_available_endpoints(tester), EndpointCategories))
    /\ current_page' = 0
    /\ pc' = "selector"
    /\ console' = PageShown(tester, all_methods', 0)
    /\ raised' = "none"
    /\ UNCHANGED <<mode, opts, mainVars, tester, typed, invokeVars, capVars, fileVars,
                   ticks>>

\* the keys the operator can press, and the lines typed at "Endpoint number"
Keys == {"q", "Q", "p", "n", "\r", "2", "x"}
NumberLines == {<<>>, <<"0">>, <<"1">>, <<"3">>, <<"4">>, <<"5", "1">>, <<"x">>}

\* select_endpoint returns a method to main, which tests it; the locals of
\* select_endpoint are gone
SelectorReturns(method) ==
    /\ endpoint' = method
    /\ pc' = "test_endpoint"
    /\ console' = {}
    /\ all_methods' = <<>>
    /\ current_page' = 0

\* select_endpoint returns None to main
SelectorReturnsNone ==
    /\ pc' = "menu"
    /\ console' = {"Returning to main menu."}
    /\ all_methods' = <<>>
    /\ current_page' = 0
    /\ UNCHANGED endpoint

\* the typed endpoint number: the method of that number, or a complaint
SelectorNumber(full_choice) ==
    IF isdigit(full_choice)
    THEN LET idx == int(full_choice) - 1
         IN IF 0 <= idx /\ idx < Len(all_methods)
            THEN SelectorReturns(all_methods[idx + 1])
            ELSE /\ console' = {"Invalid endpoint number"}
                 /\ UNCHANGED <<pc, selectorVars, endpoint>>
    ELSE /\ console' = {"Invalid input. Please enter a number."}
         /\ UNCHANGED <<pc, selectorVars, endpoint>>

\* how select_endpoint handles key k, read in raw mode; `line` is what the
\* operator types if the key leads to the prompt for the endpoint number
SelectorKeyPressed(k, line) ==
    LET key == LowerOf(k)
        end_idx == current_page * page_size + page_size
    IN IF key = "q" THEN SelectorReturnsNone
       ELSE IF key = "p" /\ current_page > 0
       THEN /\ current_page' = current_page - 1
            /\ console' = PageShown(tester, all_methods, current_page')
            /\ UNCHANGED <<pc, endpoint, all_methods>>
       ELSE IF key = "n" /\ end_idx < Len(all_methods)
       THEN /\ current_page' = current_page + 1
            /\ console' = PageShown(tester, all_methods, current_page')
            /\ UNCHANGED <<pc, endpoint, all_methods>>
       ELSE IF key = "\r" \/ key = "\n"
       THEN SelectorNumber(Strip(line))
       ELSE IF IsDigit(key)
       THEN SelectorNumber(PromptAsk(line, <<key>>))
       ELSE /\ current_page' = IF end_idx < Len(all_methods)
                               THEN current_page + 1 ELSE current_page
            /\ console' = PageShown(tester, all_methods, current_page')
            /\ UNCHANGED <<pc, endpoint, all_methods>>

\* one round of select_endpoint's loop: a key is read and handled
SelectorKey ==
    /\ pc = "selector"
    /\ \E k \in Keys, line \in NumberLines : SelectorKeyPressed(k, line)
    /\ UNCHANGED <<mode, opts, mainVars, tester, typed, raised, params,
                   args, kwargs, answers, result, capVars, fileVars, ticks>>

\* an operator interrupt or end of input in the selector: it returns None
SelectorInterrupted ==
    /\ pc = "selector"
    /\ SelectorReturnsNone
    /\ raised' = "KeyboardInterrupt"
    /\ UNCHANGED <<mode, opts, mainVars, tester, typed, params,
                   args, kwargs, answers, result, capVars, fileVars, ticks>>

\* reading the key raises another exception (stdin is no terminal, say): the
\* `except Exception` of the loop reports it and continues
SelectorReadFails ==
    /\ pc = "selector"
    /\ console' = {"Navigation error"}
    /\ pc' = "selector_retry"
    /\ UNCHANGED <<mode, opts, mainVars, tester, typed, raised, selectorVars,
                   invokeVars, capVars, fileVars, ticks>>

\* the `continue` after a failed read: the loop starts over and shows the
\* same page again
SelectorRedisplay ==
    /\ pc = "selector_retry"
    /\ console' = PageShown(tester, all_methods, current_page)
    /\ pc' = "selector"
    /\ UNCHANGED <<mode, opts, mainVars, tester, typed, raised, selectorVars,
                   invokeVars, capVars, fileVars, ticks>>

-----------------------------------------------------------------------------
(* test_endpoint *)

\* the marker for a callable inspect.signature cannot describe
NoSignature == <<"<no signature>">>

\* inspect.signature(method).parameters.keys() for the library's methods; the
\* attribute `number` is the builtin float, whose signature is (x=0, /); what
\* is not callable has no signature and inspect.signature raises
Signature(m) ==
    CASE m = fetch_balance -> <<"params">>
      [] m = fetch_order_book -> <<"symbol", "limit", "params">>
      [] m = fetch_ticker -> <<"symbol", "params">>
      [] m = number -> <<"x">>
      [] OTHER -> NoSignature

\* the parameters a callable accepts by position only
PositionalOnly(m) == IF m = number THEN {"x"} ELSE {}

\* `if "self" in params: params.remove("self")`
RemoveSelf(ps) ==
    LET NotSelf(x) == x # "self"
    IN SelectSeq(ps, NotSelf)

\* the parameters whose values test_endpoint appends to args
Positional == {"symbol", "limit", "since"}

BTC_IDR == <<"B", "T", "C", "/", "I", "D", "R">>
BTC_USDT == <<"B", "T", "C", "/", "U", "S", "D", "T">>
now == <<"n", "o", "w">>
none == <<"n", "o", "n", "e">>
true == <<"t", "r", "u", "e">>
false == <<"f", "a", "l", "s", "e">>
ten == <<"1", "0">>

\* list(self.exchange_instance.markets.keys())[:10] of a client with markets
LibMarkets == <<BTC_USDT>>

\* what the operator can type at the prompt of a parameter
ParamLines(p) ==
    CASE p = "symbol" -> {<<>>, <<"x">>}
      [] p = "limit" -> {<<>>, <<"7">>, <<"-", "3">>, <<"a", "b", "c">>}
      [] p = "since" -> {<<>>, <<"N", "o", "w">>, <<"7">>, <<"x">>}
      [] p = "params" -> {<<>>, <<"N", "o", "n", "e">>}
      [] OTHER -> {<<>>, <<"N", "o", "n", "e">>, <<"t", "r", "u", "e">>,
                   <<"F", "A", "L", "S", "E">>, <<"x">>}

\* a faulty coercion that puts 0 for a text that is no integer literal
IntOrRaw_zero(v) == IF IsIntLiteral(v) THEN PyInt(int(v)) ELSE PyInt(0)

\* `try: value = int(value)` / `except: pass`
IntOrRaw(v) == IF IsIntLiteral(v) THEN PyInt(int(v)) ELSE PyStr(v)

\* a faulty coercion that takes only the lower-case spelling of "now" and "none"
Coerce_case_sensitive(p, line, hint) ==
    CASE p = "symbol" -> PyStr(PromptAsk(line, hint))
      [] p = "limit" -> IntOrRaw(PromptAsk(line, ten))
      [] p = "since" ->
            LET value == PromptAsk(line, now)
            IN IF value = now THEN PyInt(NowMs) ELSE IntOrRaw(value)
      [] OTHER ->
            LET value == PromptAsk(line, <<>>)
            IN IF value = none THEN PyNone
               ELSE IF Lower(value) = true THEN PyBool(TRUE)
               ELSE IF Lower(value) = false THEN PyBool(FALSE)
               ELSE PyStr(value)

\* the value test_endpoint makes of the line typed for parameter p;
\* `hint` is the default offered for symbol
Coerce(p, line, hint) ==
    CASE p = "symbol" -> PyStr(PromptAsk(line, hint))
      [] p = "limit" -> IntOrRaw(PromptAsk(line, ten))
      [] p = "since" ->
            LET value == PromptAsk(line, now)
            IN IF Lower(value) = now THEN PyInt(NowMs) ELSE IntOrRaw(value)
      [] OTHER ->
            LET value == PromptAsk(line, <<>>)
            IN IF Lower(value) = none THEN PyNone
               ELSE IF Lower(value) = true THEN PyBool(TRUE)
               ELSE IF Lower(value) = false THEN PyBool(FALSE)
               ELSE PyStr(value)

\* a faulty collection that puts each positional value in front of the others
ArgsWith_in_front(a, p, value) == IF p \in Positional THEN <<value>> \o a ELSE a

\* args after the value of parameter p was collected
ArgsWith(a, p, value) == IF p \in Positional THEN Append(a, value) ELSE a

\* kwargs after the value of parameter p was collected
KwargsWith(kw, p, value) ==
    IF p \in Positional THEN kw
    ELSE [n \in DOMAIN kw \cup {p} |-> IF n = p THEN value ELSE kw[n]]

\* whether method(*args, **kwargs) binds: the positional values fill the first
\* declared parameters, and no keyword may name a parameter already filled
Binds(ps, a, kw) ==
    /\ Len(a) <= Len(ps)
    /\ \A i \in 1..Len(a) : ps[i] \notin DOMAIN kw

\* a dict of n keys that the library returned
PyDict(n) == [t |-> "dict", keys |-> n]

\* what a call of the library can return: None, an empty dict, a dict with keys
Results == {PyNone, PyDict(0), PyDict(2)}

\* a faulty return that drops the session whenever test_endpoint returns
Return_drops_session ==
    /\ pc' = IF mode = "interactive" THEN "menu" ELSE "exited"
    /\ tester' = cleanup(tester)
    /\ IF mode = "interactive" THEN ResetInvoke ELSE UNCHANGED invokeVars

\* test_endpoint returns: main shows the menu again, cli runs its finally
Return ==
    IF mode = "interactive"
    THEN /\ pc' = "menu"
         /\ ResetInvoke
         /\ UNCHANGED tester
    ELSE /\ pc' = "exited"
         /\ tester' = finally_cli(tester)
         /\ UNCHANGED invokeVars

\* the parameter test_endpoint prompts for next
NextParam == params[Len(answers) + 1]

\* test_endpoint starts: the method is looked up and its signature inspected,
\* both outside any try
TestEndpointBegin ==
    /\ pc = "test_endpoint"
    /\ IF ~Truthy(tester.exchange_instance)
       THEN /\ console' = {"No exchange instance available"}
            /\ raised' = "none"
            /\ Return
       ELSE IF /\ \A i \in DOMAIN LibMethods : LibMethods[i] # endpoint
               /\ endpoint \notin LibAttributes
       THEN /\ Propagate(tester, "lookup", {})
            /\ UNCHANGED invokeVars
       ELSE IF Signature(endpoint) = NoSignature
       THEN /\ Propagate(tester, "inspect", {})
            /\ UNCHANGED invokeVars
       ELSE /\ params' = RemoveSelf(Signature(endpoint))
            /\ pc' = IF RemoveSelf(Signature(endpoint)) = <<>> THEN "call" ELSE "prompt"
            /\ console' = {"Testing endpoint"}
            /\ UNCHANGED <<tester, raised, endpoint, args, kwargs, answers, result>>
    /\ UNCHANGED <<mode, opts, mainVars, typed, selectorVars, capVars, fileVars, ticks>>

\* the value of parameter p is collected
Collect(p, value) ==
    /\ args' = ArgsWith(args, p, value)
    /\ kwargs' = KwargsWith(kwargs, p, value)
    /\ answers' = Append(answers, <<p, value>>)
    /\ pc' = IF Len(answers) + 1 = Len(params) THEN "call" ELSE "prompt"
    /\ console' = IF Len(answers) + 1 = Len(params) THEN {"Executing"} ELSE {}

\* whether the client has markets to offer as hints for symbol
HasMarkets(t) == t.exchange_instance.markets

\* one parameter is prompted for and its value collected
PromptParam ==
    /\ pc = "prompt"
    /\ \E line \in ParamLines(NextParam) :
          Collect(NextParam,
                  Coerce(NextParam, line,
                         IF HasMarkets(tester) THEN LibMarkets[1] ELSE BTC_IDR))
    /\ UNCHANGED <<mode, opts, mainVars, tester, typed, raised, selectorVars, endpoint,
                   params, result, capVars, fileVars, ticks>>

\* an operator interrupt at a parameter prompt.  The prompt for symbol with
\* market hints is inside `try: ... except:`, which catches the interrupt and
\* asks again; at every other prompt the interrupt leaves test_endpoint
PromptParamInterrupted ==
    /\ pc = "prompt"
    /\ IF NextParam = "symbol" /\ HasMarkets(tester)
       THEN /\ pc' = "prompt_symbol_again"
            /\ console' = {}
            /\ raised' = "KeyboardInterrupt"
            /\ UNCHANGED tester
       ELSE Interrupted(tester)
    /\ UNCHANGED <<mode, opts, mainVars, typed, selectorVars, invokeVars, capVars,
                   fileVars, ticks>>

\* the second prompt for symbol, in the except branch
PromptSymbolAgain ==
    /\ pc = "prompt_symbol_again"
    /\ \E line \in ParamLines("symbol") :
          Collect("symbol", PyStr(PromptAsk(line, BTC_IDR)))
    /\ raised' = "none"
    /\ UNCHANGED <<mode, opts, mainVars, tester, typed, selectorVars, endpoint,
                   params, result, capVars, fileVars, ticks>>

\* an operator interrupt at the second prompt for symbol
PromptSymbolAgainInterrupted ==
    /\ pc = "prompt_symbol_again"
    /\ Interrupted(tester)
    /\ UNCHANGED <<mode, opts, mainVars, typed, selectorVars, invokeVars, capVars,
                   fileVars, ticks>>

\* the call returns: the request and the response are shown; a response that
\* is not None brings the save question
CallReturns ==
    /\ pc = "call"
    /\ Binds(params, args, kwargs)
    /\ DOMAIN kwargs \cap PositionalOnly(endpoint) = {}
    /\ \E r \in Results :
          IF r = PyNone
          THEN /\ console' = {"Request Details", "No response data"}
               /\ raised' = "none"
               /\ Return
          ELSE /\ result' = r
               /\ console' = {"Request Details", "Response", "Save response to JSON file?"}
               /\ pc' = "save_response_confirm"
               /\ UNCHANGED <<tester, raised, endpoint, params, args, kwargs, answers>>
    /\ UNCHANGED <<mode, opts, mainVars, typed, selectorVars, capVars, fileVars, ticks>>

\* a faulty handler that offers to save after the call raised
CallRaises_offers_save ==
    /\ pc = "call"
    /\ raised' = "call"
    /\ console' = {"Error executing", "Save response to JSON file?"}
    /\ pc' = "save_response_confirm"
    /\ UNCHANGED <<mode, opts, mainVars, tester, typed, selectorVars, invokeVars,
                   capVars, fileVars, ticks>>

\* the call raises (the arguments do not bind, or the library raised): the
\* error is shown and the traceback is offered; the handler uses none of the
\* values collected, which are dropped here
CallRaises ==
    /\ pc = "call"
    /\ raised' = "call"
    /\ console' = {"Error executing", "Show full traceback?"}
    /\ pc' = "call_traceback"
    /\ params' = <<>>
    /\ args' = <<>>
    /\ kwargs' = <<>>
    /\ answers' = <<>>
    /\ UNCHANGED <<mode, opts, mainVars, tester, typed, selectorVars, endpoint, result,
                   capVars, fileVars, ticks>>

\* the answer to test_endpoint's "Show full traceback?"
CallTraceback ==
    /\ pc = "call_traceback"
    /\ \E answer \in BOOLEAN : console' = IF answer THEN {"traceback"} ELSE {}
    /\ raised' = "none"
    /\ Return
    /\ UNCHANGED <<mode, opts, mainVars, typed, selectorVars, capVars, fileVars, ticks>>

\* the answer to "Save response to JSON file?"
SaveResponseConfirm ==
    /\ pc = "save_response_confirm"
    /\ \E answer \in BOOLEAN :
          IF answer
          THEN /\ FitsIn(files, ResponsePath(tester, endpoint))
               /\ Save(ResponsePath(tester, endpoint),
                       ResponseData(tester, endpoint,
                                    RequestInfo(tester, endpoint, args, kwargs), result),
                       "Response saved", "Error saving response")
          ELSE /\ console' = {}
               /\ UNCHANGED fileVars
    /\ Return
    /\ UNCHANGED <<mode, opts, mainVars, typed, raised, selectorVars, capVars, ticks>>

-----------------------------------------------------------------------------
(* The program *)

Next ==
    \/ CliStart
    \/ CliConfirm
    \/ CliInterrupted
    \/ MainStart
    \/ SelectExchange
    \/ EnterApiKey
    \/ EnterSecret
    \/ SetupSucceeds
    \/ SetupRaises
    \/ SetupInterrupted
    \/ MenuDisplayEndpoints
    \/ SaveEndpointsConfirm
    \/ MenuCheckSupported
    \/ SaveCapabilitiesConfirm
    \/ MenuTestEndpoint
    \/ SelectorKey
    \/ SelectorInterrupted
    \/ SelectorReadFails
    \/ SelectorRedisplay
    \/ TestEndpointBegin
    \/ PromptParam
    \/ PromptParamInterrupted
    \/ PromptSymbolAgain
    \/ PromptSymbolAgainInterrupted
    \/ CallReturns
    \/ CallRaises
    \/ CallTraceback
    \/ SaveResponseConfirm
    \/ MenuChangeExchange
    \/ MenuExit
    \/ MainTraceback
    \/ PromptInterrupted

Spec == Init /\ [][Next]_vars

-----------------------------------------------------------------------------
(* The capability report on its own: every capability map of a bounded family *)

\* every endpoint name check_supported_endpoints checks
KnownNames == UNION {{categories[c][i] : i \in DOMAIN categories[c]} : c \in DOMAIN categories}

\* names given several capabilities at once: one of each category, and one
\* that check_supported_endpoints does not know
ProbeNames == {"fetchTicker", "createOrder", "fetchBalance", "fetchPositions", "ws",
               "fetchTime"}

\* the key sets of the maps drawn: any one name, or up to MaxHasKeys probe names
HasKeySets ==
    {{}} \cup {{e} : e \in KnownNames \cup ProbeNames}
        \cup {S \in SUBSET ProbeNames : Cardinality(S) <= MaxHasKeys}

\* the capability maps drawn
HasMaps == UNION {[S -> HasValues] : S \in HasKeySets}

\* a session set up for exchange okx whose client declares any of those maps,
\* waiting at the action menu
InitCap ==
    /\ pc = "menu"
    /\ mode = "interactive"
    /\ opts = NoOptions
    /\ \E has \in HasMaps :
          tester = SetupDone(__init__, okx, PyStr(<<>>), PyStr(<<>>), has, TRUE)
    /\ InitLocals
    /\ files = <<>>
    /\ ticks = 0

NextCap ==
    \/ MenuCheckSupported
    \/ SaveCapabilitiesConfirm

SpecCap == InitCap /\ [][NextCap]_vars

-----------------------------------------------------------------------------
(* test_endpoint on its own: every declared parameter list of a bounded family *)

\* the parameter names a method may declare
ParamNames == {"symbol", "limit", "since", "timeframe", "params"}

\* whether no name occurs twice
NoRepeat(ps) == \A i, j \in DOMAIN ps : ps[i] = ps[j] => i = j

\* the declared parameter lists drawn
ParamLists ==
    {ps \in UNION {[1..n -> ParamNames] : n \in 0..MaxParams} : NoRepeat(ps)}

\* test_endpoint after it inspected the signature of a method that declares
\* any of those lists, in a session set up for exchange okx
InitInvoke ==
    /\ mode = "interactive"
    /\ opts = NoOptions
    /\ \E loaded \in BOOLEAN :
          tester = SetupDone(__init__, okx, PyStr(<<>>), PyStr(<<>>), LibHas(okx), loaded)
    /\ exchange_name = <<>>
    /\ api_key = PyNone
    /\ secret_key = PyNone
    /\ changing = FALSE
    /\ typed = <<>>
    /\ console = {"Testing endpoint"}
    /\ raised = "none"
    /\ all_methods = <<>>
    /\ current_page = 0
    /\ endpoint = fetch_ticker
    /\ params \in ParamLists
    /\ pc = IF params = <<>> THEN "call" ELSE "prompt"
    /\ args = <<>>
    /\ kwargs = <<>>
    /\ answers = <<>>
    /\ result = PyNone
    /\ has_dict = NoDict
    /\ supported = NoDict
    /\ emulated = NoDict
    /\ not_supported = NoDict
    /\ files = <<>>
    /\ ticks = 0

NextInvoke ==
    \/ PromptParam
    \/ PromptParamInterrupted
    \/ PromptSymbolAgain
    \/ PromptSymbolAgainInterrupted
    \/ CallReturns
    \/ CallRaises
    \/ CallTraceback
    \/ SaveResponseConfirm
    \/ Tick

SpecInvoke == InitInvoke /\ [][NextInvoke]_vars

-----------------------------------------------------------------------------
(* select_endpoint on its own: every length of the method list of a bounded family *)

\* the name of the i-th public method of a client, i below 1000
MethodName(i) ==
    <<"m", Digits[(i \div 100) + 1], Digits[((i \div 10) % 10) + 1], Digits[(i % 10) + 1]>>

\* the methods of a client with n public methods, as get_available_endpoints
\* hands them over
MethodsOf(n) == [i \in 1..n |-> MethodName(n + 1 - i)]

\* select_endpoint after it sorted the method list of a client with any number
\* of methods up to MaxMethods, in a session set up for exchange okx
InitSelector ==
    /\ mode = "interactive"
    /\ opts = NoOptions
    /\ tester = SetupDone(__init__, okx, PyStr(<<>>), PyStr(<<>>), LibHas(okx), TRUE)
    /\ exchange_name = <<>>
    /\ api_key = PyNone
    /\ secret_key = PyNone
    /\ changing = FALSE
    /\ typed = <<>>
    /\ raised = "none"
    /\ \E n \in 0..MaxMethods : all_methods = sorted(MethodsOf(n))
    /\ current_page = 0
    /\ console = PageShown(tester, all_methods, 0)
    /\ pc = "selector"
    /\ endpoint = <<>>
    /\ params = <<>>
    /\ args = <<>>
    /\ kwargs = <<>>
    /\ answers = <<>>
    /\ result = PyNone
    /\ has_dict = NoDict
    /\ supported = NoDict
    /\ emulated = NoDict
    /\ not_supported = NoDict
    /\ files = <<>>
    /\ ticks = 0

NextSelector ==
    \/ SelectorKey
    \/ SelectorInterrupted
    \/ SelectorReadFails
    \/ SelectorRedisplay

SpecSelector == InitSelector /\ [][NextSelector]_vars

\* select_endpoint where stdin is no terminal: every read of a key raises, and
\* only an operator interrupt can still arrive
NextNoTerminal ==
    \/ SelectorReadFails
    \/ SelectorRedisplay
    \/ SelectorInterrupted

\* the loop of select_endpoint keeps running: the process is not suspended
SpecNoTerminal == InitSelector /\ [][NextNoTerminal]_vars /\ WF_vars(NextNoTerminal)

-----------------------------------------------------------------------------
(* Properties of the whole program *)

\* C1: whenever cleanup() has returned - the program has ended after cli
\* dispatched, or "change exchange" is about to ask for the next exchange - the
\* session holds no API key, no secret, no client and no exchange id, whatever
\* happened before (no setup, a setup that succeeded or failed, invocations)
C1_CleanupClears ==
    ((pc = "exited" /\ mode # "none") \/ (pc = "select" /\ changing)) => Cleared(tester)

\* C1: the program ended after a setup with both credentials and a call that returned
C1_Witness ==
    /\ pc = "exited"
    /\ mode = "noninteractive"
    /\ api_key = PyStr(KEY1)
    /\ secret_key = PyStr(SEC1)
    /\ result # PyNone
    /\ Cleared(tester)

\* C2: main has no terminal state with a credential still stored in the session:
\* normal exit, operator interrupt and unexpected exception all pass its finally
C2_MainAlwaysCleansUp ==
    (mode = "interactive" /\ pc = "exited") =>
        (~Truthy(tester._api_key) /\ ~Truthy(tester._secret))

\* C2: main ended by the exception of a setup that had already stored the API key
C2_Witness ==
    /\ mode = "interactive"
    /\ pc = "exited"
    /\ raised = "setup"
    /\ api_key = PyStr(KEY1)
    /\ secret_key = PyStr(SEC1)
    /\ tester._api_key = PyNone

\* C3 as stated: after setup_exchange raised in main, the program goes on: it
\* neither waits at the traceback question that precedes the exit nor has ended
C3_SetupFailureNonFatal ==
    (mode = "interactive" /\ raised = "setup") => pc \notin {"main_traceback", "exited"}

\* C3 amended: a failure of setup_exchange is reported, leaves the session
\* without a client, and ends the program: main asks about the traceback and
\* exits, cli exits; no further setup is attempted
C3_SetupFailureEndsProgram ==
    raised = "setup" =>
        /\ tester.exchange_instance = PyNone
        /\ tester.exchange = PyNone
        /\ pc \in {"main_traceback", "exited"}
        /\ pc = "main_traceback" => "Error setting up exchange" \in console

\* C3: the setup started by "change exchange" raised, and main reports it
C3_Witness ==
    /\ raised = "setup"
    /\ mode = "interactive"
    /\ changing
    /\ pc = "main_traceback"
    /\ "Error setting up exchange" \in console

\* C4 as stated: a failure of the method lookup, of the signature inspection or
\* of the call is handled inside test_endpoint, which asks about the traceback
\* and returns to the menu
C4_InvocationFailureHandled ==
    raised \in {"lookup", "inspect", "call"} => pc = "call_traceback"

\* the texts of a Python value
PyTexts(v) == IF v.t = "str" THEN {v.s} ELSE {}

\* every text a written file holds as a value
FileTexts(d) ==
    PyTexts(d.exchange) \cup
    (IF d.kind = "response"
     THEN PyTexts(d.request_info.Exchange)
          \cup UNION {PyTexts(d.request_info.Arguments[i]) :
                         i \in DOMAIN d.request_info.Arguments}
          \cup UNION {PyTexts(d.request_info.KeywordArguments[n]) :
                         n \in DOMAIN d.request_info.KeywordArguments}
          \cup PyTexts(d.response)
     ELSE IF d.kind = "capabilities"
     THEN UNION {PyTexts(d.raw_has_dictionary[e]) : e \in DOMAIN d.raw_has_dictionary}
     ELSE {})

C9_SelectExchange ==
    [][(pc = "select" /\ pc' # "exited") =>
          LET name == Strip(Lower(PromptAsk(typed', indodax)))
          IN IF name \in exchanges
             THEN pc' = "key" /\ exchange_name' = name
             ELSE /\ pc' = "select"
                  /\ "Exchange not found" \in console'
                  /\ UNCHANGED <<tester, exchange_name, files, mode>>]_vars

\* C9: a registry name typed with capitals and surrounding blanks was accepted
C9_Witness ==
    /\ pc = "key"
    /\ typed = <<" ", "o", "K", "x", " ">>
    /\ exchange_name = okx

\* the places where the program waits for the operator inside test_endpoint
InvocationPrompts == {"prompt", "prompt_symbol_again", "call_traceback", "save_response_confirm"}

\* C10 as stated: given both the exchange and the endpoint option, cli runs the
\* one invocation without the operator: it never waits for input and never
\* shows the menu
C10_NonInteractive ==
    mode = "noninteractive" => pc \notin InvocationPrompts \cup {"menu", "select"}

-----------------------------------------------------------------------------
(* Properties of the capability report *)

\* how often name e occurs in the list of category c in bucket d
Occurrences(d, c, e) == Cardinality({j \in DOMAIN d[c] : d[c][j] = e})

\* the bucket the report is to put name e in, read off the capability map
ExpectedBucket(has, e) ==
    IF e \notin DOMAIN has THEN "not_supported"
    ELSE IF has[e] = PyBool(TRUE) THEN "supported"
    ELSE IF has[e] = PyStr(emulated_token) THEN "emulated"
    ELSE "not_supported"

\* whether the three dicts hold every known name exactly once, in the list of
\* its own category in the bucket that the map `has` calls for
ClassifiedBy(has, sup, emu, nsup) ==
    /\ DOMAIN sup = DOMAIN categories
    /\ DOMAIN emu = DOMAIN categories
    /\ DOMAIN nsup = DOMAIN categories
    /\ \A c \in DOMAIN categories : \A i \in DOMAIN categories[c] :
          LET e == categories[c][i]
              want == ExpectedBucket(has, e)
          IN /\ Occurrences(sup, c, e) = IF want = "supported" THEN 1 ELSE 0
             /\ Occurrences(emu, c, e) = IF want = "emulated" THEN 1 ELSE 0
             /\ Occurrences(nsup, c, e) = IF want = "not_supported" THEN 1 ELSE 0

\* a step of check_supported_endpoints from the menu: it ends at the question
\* about saving, or with the notice that there is no capability information
ChecksSupport ==
    /\ pc = "menu"
    /\ \/ pc' = "save_capabilities_confirm"
       \/ "Exchange doesn't provide capability information" \in console'

\* C6 as stated: for every capability map, check_supported_endpoints puts every
\* known name in the bucket its value calls for: absent -> unsupported, True ->
\* supported, "emulated" -> emulated, anything else -> unsupported
C6_EveryMap ==
    [][ChecksSupport =>
          ClassifiedBy(HasOf(tester), supported', emulated', not_supported')]_vars

\* C6 amended: for every capability map that is not empty,
\* check_supported_endpoints puts every known name in the bucket its value
\* calls for: absent -> unsupported, True -> supported, "emulated" -> emulated,
\* anything else -> unsupported; for an empty map it classifies nothing
C6_NonEmptyMap ==
    [][ChecksSupport =>
          IF HasOf(tester) = <<>>
          THEN pc' = "menu" /\ UNCHANGED <<has_dict, supported, emulated, not_supported>>
          ELSE /\ pc' = "save_capabilities_confirm"
               /\ has_dict' = HasOf(tester)
               /\ ClassifiedBy(HasOf(tester), supported', emulated', not_supported')]_vars

\* C6: a map was classified that holds True for one known name and, for
\* another, a value that is neither True nor the emulated token nor false
C6_Witness ==
    /\ pc = "save_capabilities_confirm"
    /\ \E e1, e2 \in KnownNames \cap DOMAIN has_dict :
          /\ has_dict[e1] = PyBool(TRUE)
          /\ has_dict[e2] \in {PyInt(1), PyStr(Emulated_token)}

\* the number of names in a bucket, over all categories
BucketSize(d) ==
    Cardinality({ce \in (DOMAIN d) \X (1..Cardinality(KnownNames)) : ce[2] \in DOMAIN d[ce[1]]})

\* C7: a saved capability report names the session's exchange; its summary
\* counts are the sizes of the three buckets and total_checked is their sum;
\* every known name is exactly once in the buckets of its own category, so
\* total_checked is the number of known names
C7_SavedReport ==
    \A path \in DOMAIN files :
        files[path].kind = "capabilities" =>
            LET d == files[path]
                b == d.categorized_endpoints
            IN /\ d.exchange = tester.exchange
               /\ d.summary.supported = BucketSize(b.supported)
               /\ d.summary.emulated = BucketSize(b.emulated)
               /\ d.summary.not_supported = BucketSize(b.not_supported)
               /\ d.summary.total_checked =
                     d.summary.supported + d.summary.emulated + d.summary.not_supported
               /\ d.summary.total_checked = Cardinality(KnownNames)
               /\ \A c \in DOMAIN categories : \A i \in DOMAIN categories[c] :
                     Occurrences(b.supported, c, categories[c][i])
                       + Occurrences(b.emulated, c, categories[c][i])
                       + Occurrences(b.not_supported, c, categories[c][i]) = 1

\* C7: a report was saved that counts supported and emulated endpoints
C7_Witness ==
    \E path \in DOMAIN files :
        /\ files[path].kind = "capabilities"
        /\ files[path].summary.supported > 0
        /\ files[path].summary.emulated > 0

-----------------------------------------------------------------------------
(* Properties of test_endpoint's parameter handling *)

\* whether a value was prompted for parameter n, and that value
Prompted(n) == \E i \in DOMAIN answers : answers[i][1] = n
AnswerOf(n) == answers[CHOOSE i \in DOMAIN answers : answers[i][1] = n][2]

\* the value prompted for n as a list of one, or the empty list
IfPresent(n) == IF Prompted(n) THEN <<AnswerOf(n)>> ELSE <<>>

\* every parameter other than symbol, limit and since is passed by name
OthersByName ==
    /\ DOMAIN kwargs = {answers[i][1] : i \in DOMAIN answers} \ {"symbol", "limit", "since"}
    /\ \A n \in DOMAIN kwargs : kwargs[n] = AnswerOf(n)

\* C8 as stated: the call gets the values of symbol, limit and since by
\* position, in the order symbol, limit, since, and every other value by name
C8_FixedOrder ==
    pc = "call" =>
        /\ args = IfPresent("symbol") \o IfPresent("limit") \o IfPresent("since")
        /\ OthersByName

\* whether a prompted value belongs to one of symbol, limit, since
IsPositionalAnswer(a) == a[1] \in {"symbol", "limit", "since"}

\* C8 amended: a value is prompted for every declared parameter in the order of
\* declaration; the values of symbol, limit and since are passed by position
\* in the order in which the method declares them, every other value by name
C8_DeclaredOrder ==
    pc = "call" =>
        /\ [i \in DOMAIN answers |-> answers[i][1]] = params
        /\ args = [i \in DOMAIN SelectSeq(answers, IsPositionalAnswer) |->
                      SelectSeq(answers, IsPositionalAnswer)[i][2]]
        /\ OthersByName

\* C8: a method that declares since before limit is about to be called
C8_Witness ==
    /\ pc = "call"
    /\ params = <<"since", "limit">>
    /\ Len(args) = 2
    /\ args[1] # args[2]

\* C18 as stated: the method receives every prompted value as the value of the
\* parameter it was prompted for: the i-th positional value, which the call
\* binds to the i-th declared parameter, is the value prompted for that
\* parameter, every keyword value is the one prompted for its name, and no
\* keyword names a parameter that a positional value has filled
C18_BoundToOwnParameter ==
    pc = "call" =>
        /\ \A i \in DOMAIN args : args[i] = AnswerOf(params[i])
        /\ \A n \in DOMAIN kwargs : kwargs[n] = AnswerOf(n)
        /\ \A i \in DOMAIN args : params[i] \notin DOMAIN kwargs

-----------------------------------------------------------------------------
(* Properties of interrupts, saves and sessions *)

\* C11 as stated: whenever an operator interrupt is the last exception raised,
\* the session holds no credential and the program has left the operation it
\* was in: it has ended, or it is back at the action menu
C11_InterruptCleansUp ==
    raised = "KeyboardInterrupt" =>
        /\ ~Truthy(tester._api_key)
        /\ ~Truthy(tester._secret)
        /\ pc \in {"exited", "menu"}

\* the places where the program asks whether to save, and the messages that
\* report a failed write
SaveQuestions ==
    {"save_endpoints_confirm", "save_capabilities_confirm", "save_response_confirm"}
SaveFailures ==
    {"Error saving endpoints info", "Error saving capability info", "Error saving response"}

\* C12: a save whose write fails reports the failure and returns normally: no
\* exception leaves the save operation, no file is changed, and main is
\* back at the action menu with the session (exchange id, client, credentials)
\* unchanged; in cli, test_endpoint returns and the program ends normally
C12_WriteFailureNonFatal ==
    [][(pc \in SaveQuestions /\ console' \cap SaveFailures # {}) =>
          /\ raised' = raised
          /\ files' = files
          /\ IF mode = "interactive"
             THEN pc' = "menu" /\ tester' = tester
             ELSE pc' = "exited"]_vars

\* C12: the write of a response failed in a session that holds a client and
\* both credentials, and main is back at the menu
C12_Witness ==
    /\ pc = "menu"
    /\ console = {"Error saving response"}
    /\ IsClient(tester.exchange_instance)
    /\ tester._api_key = PyStr(KEY1)
    /\ tester._secret = PyStr(SEC1)

\* the credential a client holds when it was constructed with credential v
ClientCredential(v) == IF Truthy(v) THEN v ELSE PyStr(<<>>)

\* C13: the session is one session at most: a client it holds is the client of
\* the exchange whose id it holds and was built with the credentials it holds;
\* without a client it holds no exchange id; and while the next exchange is
\* selected and set up, nothing of a previous session is left
C13_OneSession ==
    /\ IsClient(tester.exchange_instance) =>
          /\ tester.exchange = PyStr(tester.exchange_instance.id)
          /\ tester.exchange_instance.apiKey = ClientCredential(tester._api_key)
          /\ tester.exchange_instance.secret = ClientCredential(tester._secret)
    /\ ~IsClient(tester.exchange_instance) => tester.exchange = PyNone
    /\ pc \in {"select", "key", "secret", "setup"} => Cleared(tester)

\* C13: after a session with okx, whose endpoint list or report was saved, the
\* session is one with indodax and credentials
C13_Witness ==
    /\ \E path \in DOMAIN files : files[path].exchange = PyStr(okx)
    /\ IsClient(tester.exchange_instance)
    /\ tester.exchange = PyStr(indodax)
    /\ tester._api_key = PyStr(KEY1)

\* C14 as stated: a response is never saved to a path at which a file of this
\* run exists already, so no save overwrites what an earlier save wrote
C14_NoCollision ==
    [][(pc = "save_response_confirm" /\ "Response saved" \in console') =>
          ResponsePath(tester, endpoint) \notin DOMAIN files]_vars

-----------------------------------------------------------------------------
(* Properties of the values collected *)

\* the lines that stand for "now" at the prompt for since
NowLines == {line \in ParamLines("since") : Lower(PromptAsk(line, now)) = now}

\* the value test_endpoint makes of "now" typed as `line`, at the present time
SinceNow(line) == Coerce("since", line, BTC_IDR)

\* C15 as stated: "now", in any letter case, gives a positive integer, and at
\* a later wall-clock time it gives a strictly greater one
C15_NowStrictlyIncreasing ==
    [][(pc = "prompt" /\ NextParam = "since" /\ ticks' > ticks) =>
          \A line \in NowLines :
             /\ SinceNow(line).t = "int"
             /\ SinceNow(line).n > 0
             /\ SinceNow(line)'.n > SinceNow(line).n]_vars

\* C15 amended: "now", in any letter case, gives a positive integer, the
\* wall clock cut to the millisecond; at a later wall-clock time it is never
\* smaller, and it is greater exactly when a millisecond boundary was passed
C15_NowNeverDecreasing ==
    [][(pc = "prompt" /\ NextParam = "since" /\ ticks' > ticks) =>
          \A line \in NowLines :
             /\ SinceNow(line).t = "int"
             /\ SinceNow(line)'.t = "int"
             /\ SinceNow(line).n > 0
             /\ SinceNow(line).n = Clock \div TicksPerMs
             /\ SinceNow(line)'.n >= SinceNow(line).n
             /\ SinceNow(line)'.n > SinceNow(line).n <=> Clock' % TicksPerMs = 0]_vars

\* C15: "now" was answered for since after the clock passed into the next
\* millisecond, and the call is about to be made with that millisecond
C15_Witness ==
    /\ pc = "call"
    /\ ticks > 0
    /\ \E i \in DOMAIN answers : answers[i] = <<"since", PyInt(StartMs + 1)>>
    /\ PyInt(StartMs + 1) \in {args[i] : i \in DOMAIN args}

\* C16: the value collected for limit is the integer the line typed denotes
\* when the line is an integer literal and otherwise the text typed, as a
\* string; it is appended to the positional arguments, nothing is raised, and
\* test_endpoint goes on to the next prompt or to the call
C16_LimitCoercion ==
    [][(pc = "prompt" /\ NextParam = "limit" /\ answers' # answers) =>
          /\ \E line \in ParamLines("limit") :
                LET text == PromptAsk(line, ten)
                    value == IF IsIntLiteral(text) THEN PyInt(int(text)) ELSE PyStr(text)
                IN /\ answers' = Append(answers, <<"limit", value>>)
                   /\ args' = Append(args, value)
          /\ kwargs' = kwargs
          /\ raised' = raised
          /\ pc' \in {"prompt", "call"}]_vars

\* C16: the call is about to be made with the text "abc" as the limit
C16_Witness ==
    /\ pc = "call"
    /\ raised = "none"
    /\ \E i \in DOMAIN answers : answers[i] = <<"limit", PyStr(<<"a", "b", "c">>)>>
    /\ PyStr(<<"a", "b", "c">>) \in {args[i] : i \in DOMAIN args}

-----------------------------------------------------------------------------
(* Properties of the endpoint selector *)

\* the index of the last page that has entries
LastPage(l) == IF l = <<>> THEN 0 ELSE (Len(l) - 1) \div page_size

\* whether line, typed at the prompt for the endpoint number, is a number of
\* the list
IsNumberOf(line, l) == isdigit(line) /\ int(line) \in 1..Len(l)

\* C19 as stated: in every round of the selector the page index stays between
\* 0 and the last page that has entries, 'p' never moves forward and 'n' never
\* moves backward, and after Enter a typed number k in 1..N returns the k-th
\* method of the whole list, whatever page is shown, and any other line
\* returns no method
C19_SelectorPaging ==
    [][pc = "selector" =>
          /\ pc' = "selector" => current_page' \in 0..LastPage(all_methods')
          /\ \A line \in NumberLines :
                /\ SelectorKeyPressed("p", line) => current_page' <= current_page
                /\ SelectorKeyPressed("n", line) => current_page' >= current_page
                /\ SelectorKeyPressed("\r", line) =>
                      IF IsNumberOf(Strip(line), all_methods)
                      THEN pc' = "test_endpoint"
                           /\ endpoint' = all_methods[int(Strip(line))]
                      ELSE pc' = "selector" /\ endpoint' = endpoint
          /\ pc' = "test_endpoint" =>
                \E i \in DOMAIN all_methods : endpoint' = all_methods[i]]_vars


\* whether name e is in the list of some category of bucket d
InBucket(d, e) == \E c \in DOMAIN d : \E i \in DOMAIN d[c] : d[c][i] = e

\* C20 as stated: after check_supported_endpoints classified the known names,
\* the icon the selector shows for a name agrees with its bucket: supported
\* gives the supported icon, emulated the emulated icon, and every name in
\* the unsupported bucket, a name absent from the map included, gives the
\* not-supported icon
C20_IconAgrees ==
    pc = "save_capabilities_confirm" =>
        \A e \in KnownNames :
            /\ InBucket(supported, e) =>
                  _get_endpoint_support_status(tester, e) = icon_supported
            /\ InBucket(emulated, e) =>
                  _get_endpoint_support_status(tester, e) = icon_emulated
            /\ InBucket(not_supported, e) =>
                  _get_endpoint_support_status(tester, e) = icon_not_supported

\* C20 amended: the icon agrees with the bucket for every name the map holds:
\* supported gives the supported icon, emulated the emulated icon, and a name
\* in the unsupported bucket gives the not-supported icon when the map holds
\* it and the unknown icon when it is absent from the map
C20_IconAgreesForPresent ==
    pc = "save_capabilities_confirm" =>
        \A e \in KnownNames :
            /\ InBucket(supported, e) =>
                  _get_endpoint_support_status(tester, e) = icon_supported
            /\ InBucket(emulated, e) =>
                  _get_endpoint_support_status(tester, e) = icon_emulated
            /\ InBucket(not_supported, e) =>
                  _get_endpoint_support_status(tester, e) =
                      IF e \in DOMAIN has_dict THEN icon_not_supported ELSE icon_unknown

\* C20: a map was classified that holds a supported name and a name with the
\* value False, and leaves other known names out
C20_Witness ==
    /\ pc = "save_capabilities_confirm"
    /\ \E e1, e2 \in KnownNames \cap DOMAIN has_dict :
          /\ InBucket(supported, e1)
          /\ has_dict[e2] = PyBool(FALSE)
          /\ InBucket(not_supported, e2)
    /\ \E e3 \in KnownNames \ DOMAIN has_dict : InBucket(not_supported, e3)

-----------------------------------------------------------------------------
(* Properties of the files *)

\* whether a result holds anything
NonEmpty(r) == r # PyNone /\ r.keys > 0

\* the message that reports the file written for a save question
SavedMessage(q) ==
    CASE q = "save_endpoints_confirm" -> "Endpoints info saved"
      [] q = "save_capabilities_confirm" -> "Capability info saved"
      [] q = "save_response_confirm" -> "Response saved"

\* the kind of file a save question is about
SavedKind(q) ==
    CASE q = "save_endpoints_confirm" -> "endpoints"
      [] q = "save_capabilities_confirm" -> "capabilities"
      [] q = "save_response_confirm" -> "response"

\* the paths whose file a step wrote anew or changed
Written == {path \in DOMAIN files' : path \notin DOMAIN files \/ files'[path] # files[path]}

\* C17 as stated: the save of a response is offered only when the call
\* returned a result that is not empty
C17_OfferedForNonEmpty ==
    pc = "save_response_confirm" => NonEmpty(result)

\* C17 amended: no file is removed, and a file is written only by the step
\* that answers a save question with yes, which writes the one file of that
\* question and reports it; the save of a response is offered only by the step
\* in which the call returned a value other than None (an empty one included),
\* and never after a call that raised
C17_WrittenOnlyOnConfirmation ==
    [][/\ DOMAIN files \subseteq DOMAIN files'
       /\ Written # {} =>
             /\ pc \in SaveQuestions
             /\ console' = {SavedMessage(pc)}
             /\ Cardinality(Written) = 1
             /\ \A path \in Written : files'[path].kind = SavedKind(pc)
       /\ (pc # "save_response_confirm" /\ pc' = "save_response_confirm") =>
             /\ pc = "call"
             /\ result' # PyNone
             /\ raised' = "none"
       /\ (pc = "call" /\ raised' = "call") => pc' = "call_traceback"
       /\ pc = "call_traceback" => (files' = files /\ pc' \in {"menu", "exited"})]_vars

\* C17: the response of a call that returned an empty dict was saved on the
\* operator's yes
C17_Witness ==
    /\ console = {"Response saved"}
    /\ \E path \in DOMAIN files :
          files[path].kind = "response" /\ files[path].response = PyDict(0)

\* the places of select_endpoint's loop
SelectorPlaces == {"selector", "selector_retry"}

\* C21 as stated: from every state of select_endpoint the loop eventually
\* ends, with a method or back at the menu, also when reading a key keeps
\* failing with an error that is no interrupt
C21_SelectorTerminates ==
    (pc \in SelectorPlaces) ~> (pc \notin SelectorPlaces)

=============================================================================
